---- MODULE Spec2Model ----
(***************************************************************************)
(* Room Rant backend (src/index.py): the per-room publish/subscribe relay. *)
(*                                                                         *)
(* State: room_messages, room_clients (two defaultdict(list)), the global  *)
(* clients_lock, one inbound queue.Queue per stream session, the position  *)
(* of every request thread.  SendMessage.post is run by publisher threads, *)
(* stream_messages / event_stream by session threads.  Every step is one   *)
(* atomic block of the handler between two points where another thread     *)
(* can be scheduled and observe or change shared state.                    *)
(*                                                                         *)
(* puts, out, pings, members, failedOn, gone, removed, deregRuns are        *)
(* history variables: they record what the code did and no action reads    *)
(* them, except the guard that keeps pings within MaxPings.                *)
(***************************************************************************)
EXTENDS Integers, Sequences, FiniteSets, TLC

\* ---------------------------------------------------------------- bounds
MaxPings == 1       \* keep-alives written to one connection
MaxQuiet == 92      \* time units a session is followed without a publish

\* ------------------------------------------------------------- constants
KnownRoom == "room1a2b3c"
Rooms == {KnownRoom, "ghost"}
\* request threads, named in the order their requests arrive
Sessions == {"s1", "s2"}       \* GET /rooms/<room_id>/stream
Publishers == {"p1", "p2"}     \* POST /rooms/<room_id>/messages
Joiners == {"j1"}              \* POST /rooms/<room_id>/join
Arrival == <<"s1", "s2", "p1", "p2">>
Position(t) == CHOOSE i \in 1..Len(Arrival) : Arrival[i] = t
\* the threads of the same kind that are named before t
Earlier(t, kind) == {u \in kind : Position(u) < Position(t)}
NoOwner == "free"
Timeout == 30                  \* client_queue.get(timeout=30)
NoMessage == [id |-> 0]
NoResponse == [status |-> 0]
None == "None"
NoJson == [json |-> "null"]
\* request bodies: get_json() gives None, or a dict whose fields may be absent
Bodies ==
  {NoJson} \cup
  {[user_id |-> "u1", user_name |-> "ann", message |-> "hi"],
   [user_id |-> None, user_name |-> "ann", message |-> "hi"],
   [user_id |-> "u1", user_name |-> None, message |-> "hi"],
   [user_id |-> "u1", user_name |-> "ann", message |-> None]}

VARIABLES
  room_messages,   \* dict: room id -> list of message records
  room_clients,    \* dict: room id -> list of client queues (session ids)
  clients_lock,    \* the thread inside a `with clients_lock:` block, or NoOwner
  created,         \* number of messages created so far (uuid4 / now() source)
  spc,             \* session -> position in stream_messages / event_stream
  room_of,         \* session -> room_id captured by the generator's closure
  replay_it,       \* session -> index of the list iterator of the replay loop
  client_queue,    \* session -> contents of its queue.Queue
  conn,            \* session -> "open" | "closed" (the client side)
  out,             \* session -> message frames written to the connection
  pings,           \* session -> keep-alive frames written to the connection
  puts,            \* session -> frames ever placed on its queue
  deregRuns,       \* session -> times the finally block ran
  removed,         \* handles on which list.remove was executed
  ppc,             \* publisher -> position in SendMessage.post
  room_id,         \* publisher -> room id of the running request
  message,         \* publisher -> message record of the running request
  fan_it,          \* publisher -> index of the list iterator of the fan-out
  members,         \* publisher -> room_clients[room_id] when the fan-out began
  failedOn,        \* publisher -> handles whose put raised in this fan-out
  gone,            \* publisher -> handles already removed when the fan-out began
  body,            \* publisher -> JSON body of the running request
  response,        \* publisher -> response of the finished request
  waited,          \* session -> time units spent in the running get(timeout=30)
  quiet,           \* session -> time units in LIVE since the last publish to its room
  quietPings,      \* session -> keep-alives written during those time units
  join_room,       \* joiner -> room id of the join request
  join_body,       \* joiner -> JSON body of the join request
  join_response    \* joiner -> response of the finished join request

vars == <<room_messages, room_clients, clients_lock, created, spc, room_of,
          replay_it, client_queue, conn, out, pings, puts, deregRuns,
          removed, ppc, room_id, body, message, fan_it, members, failedOn,
          gone, response, waited, quiet, quietPings, join_room, join_body,
          join_response>>

timeVars == <<waited, quiet, quietPings>>
joinVars == <<join_room, join_body, join_response>>

sessVars == <<spc, room_of, replay_it, client_queue, conn, out, pings, deregRuns>>
pubVars == <<ppc, room_id, body, message, fan_it, members, failedOn, gone,
            response>>

\* ----------------------------------------------------------- containers
\* defaultdict(list).__getitem__: the value, [] for a missing key
DictGet(d, k) == IF k \in DOMAIN d THEN d[k] ELSE <<>>

\* the dict after d[k] = v; reading a missing key stores [] the same way
DictSet(d, k, v) == [x \in (DOMAIN d) \cup {k} |-> IF x = k THEN v ELSE d[x]]

DictTouch(d, k) == DictSet(d, k, DictGet(d, k))

InList(l, c) == \E i \in 1..Len(l) : l[i] = c

IndexOf(l, c) == CHOOSE i \in 1..Len(l) : l[i] = c /\ \A j \in 1..(i-1) : l[j] # c

ListPrepend(l, x) == <<x>> \o l

\* list.append(x)
ListAppend(l, x) == Append(l, x)

ListRemoveKeep(l, c) == l

\* list.remove(c): drops the first occurrence of c
ListRemove(l, c) ==
  [i \in 1..(Len(l)-1) |-> IF i < IndexOf(l, c) THEN l[i] ELSE l[i+1]]

\* ---------------------------------------------------------------- frames
\* json.dumps of a dict: the key/value pairs in insertion order
JsonDumps(m) ==
  << <<"id", m.id>>, <<"user_id", m.user_id>>, <<"user_name", m.user_name>>,
     <<"message", m.message>>, <<"timestamp", m.timestamp>>,
     <<"room_id", m.room_id>> >>

\* f"data: {json.dumps(message)}\n\n"
Frame(m) == <<"data: ", JsonDumps(m), "\n\n">>

PingFrame == <<"data: ", << <<"type", "ping">> >>, "\n\n">>

IsPing(f) == f[2][1][1] = "type"

FrameId(f) == f[2][1][2]

\* ----------------------------------------------------------------- rooms
RoomExistsAny(r) == TRUE

\* `room_id != "room1a2b3c"` is the whole Room Registry
RoomExists(r) == r = KnownRoom

\* ---------------------------------------------------------------- lock
LockFreeAlways == TRUE

\* threading.Lock.__enter__ succeeds only when no thread holds the lock
LockFree == clients_lock = NoOwner

Init ==
  /\ room_messages = <<>>
  /\ room_clients = <<>>
  /\ clients_lock = NoOwner
  /\ created = 0
  /\ spc = [s \in Sessions |-> "idle"]
  /\ room_of = [s \in Sessions |-> KnownRoom]
  /\ replay_it = [s \in Sessions |-> 0]
  /\ client_queue = [s \in Sessions |-> <<>>]
  /\ conn = [s \in Sessions |-> "open"]
  /\ out = [s \in Sessions |-> <<>>]
  /\ pings = [s \in Sessions |-> 0]
  /\ puts = [s \in Sessions |-> <<>>]
  /\ deregRuns = [s \in Sessions |-> 0]
  /\ removed = {}
  /\ ppc = [p \in Publishers |-> "idle"]
  /\ room_id = [p \in Publishers |-> KnownRoom]
  /\ body = [p \in Publishers |-> NoJson]
  /\ message = [p \in Publishers |-> NoMessage]
  /\ fan_it = [p \in Publishers |-> 0]
  /\ members = [p \in Publishers |-> <<>>]
  /\ failedOn = [p \in Publishers |-> {}]
  /\ gone = [p \in Publishers |-> {}]
  /\ response = [p \in Publishers |-> NoResponse]
  /\ waited = [s \in Sessions |-> 0]
  /\ quiet = [s \in Sessions |-> 0]
  /\ quietPings = [s \in Sessions |-> 0]
  /\ join_room = [j \in Joiners |-> KnownRoom]
  /\ join_body = [j \in Joiners |-> NoJson]
  /\ join_response = [j \in Joiners |-> NoResponse]

\* ======================================================= stream sessions
\* where control goes when the generator is closed or the loop is left:
\* every exit of the try block runs the finally block
OnCloseLeak(where) == IF where = "replay" THEN "closed" ELSE "finally"

OnClose(where) == "finally"

\* `yield f`: the server writes f to the connection; a write to a closed
\* connection fails and the server closes the generator at that yield
Yield(s, f, where, next) ==
  IF conn[s] = "open"
    THEN /\ out' = [out EXCEPT ![s] = IF IsPing(f) THEN @ ELSE Append(@, f)]
         /\ pings' = [pings EXCEPT ![s] = IF IsPing(f) THEN @ + 1 ELSE @]
         /\ spc' = [spc EXCEPT ![s] = next]
    ELSE /\ out' = out
         /\ pings' = pings
         /\ spc' = [spc EXCEPT ![s] = OnClose(where)]

\* stream_messages(room_id): the room check, then Response(event_stream())
OpenStream(s) ==
  /\ spc[s] = "idle"
  /\ \A t \in Earlier(s, Sessions) : spc[t] # "idle"
  /\ \E r \in Rooms :
       /\ room_of' = [room_of EXCEPT ![s] = r]
       /\ spc' = [spc EXCEPT ![s] = IF ~RoomExists(r) THEN "notfound" ELSE "connecting"]
  /\ UNCHANGED <<timeVars, joinVars, room_messages, room_clients, clients_lock, created, replay_it,
                 client_queue, conn, out, pings, puts, deregRuns, removed,
                 pubVars>>

\* client_queue = queue.Queue(); with clients_lock: (enter)
SubscribeAcquire(s) ==
  /\ spc[s] = "connecting"
  /\ LockFree
  /\ clients_lock' = s
  /\ client_queue' = [client_queue EXCEPT ![s] = <<>>]
  /\ spc' = [spc EXCEPT ![s] = "subscribing"]
  /\ UNCHANGED <<timeVars, joinVars, room_messages, room_clients, created, room_of, replay_it,
                 conn, out, pings, puts, deregRuns, removed, pubVars>>

\* room_clients[room_id].append(client_queue); leave the with block; enter
\* the try block and take the iterator of room_messages[room_id]
Subscribe(s) ==
  /\ spc[s] = "subscribing"
  /\ room_clients' = DictSet(room_clients, room_of[s],
                             ListAppend(DictGet(room_clients, room_of[s]), s))
  /\ clients_lock' = NoOwner
  /\ room_messages' = DictTouch(room_messages, room_of[s])
  /\ replay_it' = [replay_it EXCEPT ![s] = 0]
  /\ spc' = [spc EXCEPT ![s] = "replaying"]
  /\ UNCHANGED <<timeVars, joinVars, created, room_of, client_queue, conn, out, pings, puts, deregRuns,
                 removed, pubVars>>

ReplayMoreShort(s) == replay_it[s] < Len(DictGet(room_messages, room_of[s])) - 1

\* the list iterator of the replay loop has a next item; the list is the
\* live Message Log, not a copy
ReplayMore(s) == replay_it[s] < Len(DictGet(room_messages, room_of[s]))

ReplayItemNewestFirst(s) ==
  DictGet(room_messages, room_of[s])[Len(DictGet(room_messages, room_of[s])) - replay_it[s]]

\* the item the list iterator of the replay loop yields next
ReplayItem(s) == DictGet(room_messages, room_of[s])[replay_it[s] + 1]

\* one turn of `for message in room_messages[room_id]: yield ...`
ReplayEmit(s) ==
  /\ spc[s] = "replaying"
  /\ ReplayMore(s)
  /\ Yield(s, Frame(ReplayItem(s)), "replay", "replaying")
  /\ replay_it' = [replay_it EXCEPT ![s] = IF conn[s] = "open" THEN @ + 1 ELSE 0]
  /\ UNCHANGED <<timeVars, joinVars, room_messages, room_clients, clients_lock, created, room_of,
                 client_queue, conn, puts, deregRuns, removed, pubVars>>

\* the list iterator is exhausted and dropped: the replay loop ends, `while
\* True` begins
ReplayDone(s) ==
  /\ spc[s] = "replaying"
  /\ ~ReplayMore(s)
  /\ replay_it' = [replay_it EXCEPT ![s] = 0]
  /\ spc' = [spc EXCEPT ![s] = "live"]
  /\ waited' = [waited EXCEPT ![s] = 0]
  /\ quiet' = [quiet EXCEPT ![s] = 0]
  /\ quietPings' = [quietPings EXCEPT ![s] = 0]
  /\ UNCHANGED <<joinVars, room_messages, room_clients, clients_lock, created, room_of,
                 client_queue, conn, out, pings, puts, deregRuns,
                 removed, pubVars>>

\* message = client_queue.get(timeout=30) returns an item; yield message
LiveGet(s) ==
  /\ spc[s] = "live"
  /\ client_queue[s] # <<>>
  /\ client_queue' = [client_queue EXCEPT ![s] = Tail(@)]
  /\ Yield(s, Head(client_queue[s]), "live", "live")
  /\ waited' = [waited EXCEPT ![s] = 0]
  /\ UNCHANGED <<quiet, quietPings, joinVars, room_messages, room_clients, clients_lock, created, room_of,
                 replay_it, conn, puts, deregRuns, removed, pubVars>>

TimedOutNever(s) == FALSE

\* client_queue.get(timeout=30) gives up: nothing was queued for 30 seconds
TimedOut(s) == client_queue[s] = <<>>

\* the 30 second wait elapses with nothing queued: queue.Empty, yield the ping
LiveTimeout(s) ==
  /\ spc[s] = "live"
  /\ TimedOut(s)
  /\ conn[s] = "open" => pings[s] < MaxPings
  /\ Yield(s, PingFrame, "ping", "live")
  /\ UNCHANGED <<timeVars, joinVars, room_messages, room_clients, clients_lock, created, room_of,
                 replay_it, client_queue, conn, puts, deregRuns, removed,
                 pubVars>>

ElapsedEarly(s) == waited[s] >= 1

\* the running get(timeout=30) has waited its 30 time units
Elapsed(s) == waited[s] = Timeout

\* LiveTimeout with the clock: the wait has lasted 30 time units and nothing
\* is queued; queue.Empty, yield the ping, call get(timeout=30) again
LiveTimeoutAt(s) ==
  /\ spc[s] = "live"
  /\ TimedOut(s)
  /\ Elapsed(s)
  /\ Yield(s, PingFrame, "ping", "live")
  /\ waited' = [waited EXCEPT ![s] = 0]
  /\ quietPings' = [quietPings EXCEPT ![s] = IF conn[s] = "open" THEN @ + 1 ELSE @]
  /\ UNCHANGED <<quiet, joinVars, room_messages, room_clients, clients_lock,
                 created, room_of, replay_it, client_queue, conn, puts,
                 deregRuns, removed, pubVars>>

\* one time unit passes for the sessions blocked in get(timeout=30): get
\* returns at once when an item is queued and gives up when the 30 units are
\* over, so time passes only while every waiting session has an empty queue
\* and time left
Tick ==
  /\ \E s \in Sessions : spc[s] = "live"
  /\ \A s \in Sessions :
        spc[s] = "live" => client_queue[s] = <<>> /\ ~Elapsed(s) /\ quiet[s] < MaxQuiet
  /\ waited' = [s \in Sessions |-> IF spc[s] = "live" THEN waited[s] + 1 ELSE waited[s]]
  /\ quiet' = [s \in Sessions |-> IF spc[s] = "live" THEN quiet[s] + 1 ELSE quiet[s]]
  /\ UNCHANGED <<quietPings, joinVars, room_messages, room_clients, clients_lock,
                 created, sessVars, puts, removed, pubVars>>

\* the wait raises something other than queue.Empty: bare except, break
LiveError(s) ==
  /\ spc[s] = "live"
  /\ spc' = [spc EXCEPT ![s] = OnClose("error")]
  /\ UNCHANGED <<timeVars, joinVars, room_messages, room_clients, clients_lock, created, room_of,
                 replay_it, client_queue, conn, out, pings, puts, deregRuns,
                 removed, pubVars>>

\* finally: with clients_lock: (enter)
UnsubscribeAcquire(s) ==
  /\ spc[s] = "finally"
  /\ LockFree
  /\ clients_lock' = s
  /\ spc' = [spc EXCEPT ![s] = "unsubscribing"]
  /\ UNCHANGED <<timeVars, joinVars, room_messages, room_clients, created, room_of, replay_it,
                 client_queue, conn, out, pings, puts, deregRuns, removed,
                 pubVars>>

IsMemberAlways(l, c) == TRUE

\* `client_queue in room_clients[room_id]`, the guard of the removal in the
\* finally block
IsMember(l, c) == InList(l, c)

\* if client_queue in room_clients[room_id]: remove it; leave the with block
\* (list.remove of an absent item raises ValueError out of the generator).
\* The generator ends: the response is over, the connection is closed and
\* the queue, now referenced by nobody, is dropped with what it holds
Unsubscribe(s) ==
  /\ spc[s] = "unsubscribing"
  /\ IF IsMember(DictGet(room_clients, room_of[s]), s)
       THEN /\ room_clients' = DictSet(room_clients, room_of[s],
                                  ListRemove(DictGet(room_clients, room_of[s]), s))
            /\ removed' = removed \cup {s}
            /\ spc' = [spc EXCEPT ![s] =
                         IF InList(DictGet(room_clients, room_of[s]), s)
                           THEN "closed" ELSE "ValueError"]
       ELSE /\ room_clients' = DictTouch(room_clients, room_of[s])
            /\ removed' = removed
            /\ spc' = [spc EXCEPT ![s] = "closed"]
  /\ clients_lock' = NoOwner
  /\ deregRuns' = [deregRuns EXCEPT ![s] = @ + 1]
  /\ conn' = [conn EXCEPT ![s] = "closed"]
  /\ client_queue' = [client_queue EXCEPT ![s] = <<>>]
  /\ UNCHANGED <<timeVars, joinVars, room_messages, created, room_of, replay_it, out, pings, puts,
                 pubVars>>

\* the client goes away (environment)
Disconnect(s) ==
  /\ spc[s] \in {"connecting", "subscribing", "replaying", "live"}
  /\ conn[s] = "open"
  /\ conn' = [conn EXCEPT ![s] = "closed"]
  /\ UNCHANGED <<timeVars, joinVars, room_messages, room_clients, clients_lock, created, spc,
                 room_of, replay_it, client_queue, out, pings, puts, deregRuns,
                 removed, pubVars>>

\* ============================================================ publishers
\* dict.get(k): the value, None for a missing key
Field(b, k) == b[k]

\* `not all([user_id, user_name, message_content])`: None is falsy
Missing(b) ==
  \/ Field(b, "user_id") = None
  \/ Field(b, "user_name") = None
  \/ Field(b, "message") = None

ErrorResponse(code) == [status |-> code, data |-> None]

\* the response of a publish whose try block ran to its end
PostedResponseError(m) == ErrorResponse(500)

PostedResponse(m) == [status |-> 200, message_id |-> m.id, room_id |-> m.room_id]

\* the message object built from the request; uuid4 and now() are fresh
NewMessage(n, r, b) ==
  [id |-> n, user_id |-> Field(b, "user_id"), user_name |-> Field(b, "user_name"),
   message |-> Field(b, "message"), timestamp |-> n, room_id |-> r]

PostOutcomeRoomFirst(r, b) ==
  IF b = NoJson THEN 500
  ELSE IF r # KnownRoom THEN 404
  ELSE IF Missing(b) THEN 400
  ELSE 200

\* the status the checks of SendMessage.post lead to, in the order the
\* handler makes them: data.get on None raises (500), then the fields
\* (400), then the room (404)
PostOutcome(r, b) ==
  IF b = NoJson THEN 500
  ELSE IF Missing(b) THEN 400
  ELSE IF ~RoomExists(r) THEN 404
  ELSE 200

\* SendMessage.post up to the append: read the body, validate, check the
\* room, build the message, room_messages[room_id].append(message)
Post(p) ==
  /\ ppc[p] = "idle"
  /\ \A q \in Earlier(p, Publishers) : ppc[q] # "idle"
  /\ \E r \in Rooms, b \in Bodies :
       /\ room_id' = [room_id EXCEPT ![p] = r]
       /\ body' = [body EXCEPT ![p] = b]
       /\ IF PostOutcome(r, b) # 200
            THEN /\ response' = [response EXCEPT ![p] = ErrorResponse(PostOutcome(r, b))]
                 /\ ppc' = [ppc EXCEPT ![p] = "done"]
                 /\ UNCHANGED <<room_messages, created, message, quiet, quietPings>>
            ELSE /\ created' = created + 1
                 /\ quiet' = [s \in Sessions |-> IF room_of[s] = r THEN 0 ELSE quiet[s]]
                 /\ quietPings' = [s \in Sessions |->
                                     IF room_of[s] = r THEN 0 ELSE quietPings[s]]
                 /\ message' = [message EXCEPT ![p] = NewMessage(created + 1, r, b)]
                 /\ room_messages' =
                      DictSet(room_messages, r,
                              ListAppend(DictGet(room_messages, r),
                                         NewMessage(created + 1, r, b)))
                 /\ response' = [response EXCEPT ![p] = NoResponse]
                 /\ ppc' = [ppc EXCEPT ![p] = "appended"]
  /\ UNCHANGED <<waited, joinVars, room_clients, clients_lock, sessVars, puts,
                 removed, fan_it, members, failedOn, gone>>

\* with clients_lock: (enter); take the iterator of room_clients[room_id]
FanoutAcquire(p) ==
  /\ ppc[p] = "appended"
  /\ LockFree
  /\ clients_lock' = p
  /\ room_clients' = DictTouch(room_clients, room_id[p])
  /\ fan_it' = [fan_it EXCEPT ![p] = 0]
  /\ members' = [members EXCEPT ![p] = DictGet(room_clients, room_id[p])]
  /\ failedOn' = [failedOn EXCEPT ![p] = {}]
  /\ gone' = [gone EXCEPT ![p] = removed]
  /\ ppc' = [ppc EXCEPT ![p] = "fanout"]
  /\ UNCHANGED <<timeVars, joinVars, room_messages, created, sessVars, puts, removed, room_id,
                 body, message, response>>

FanoutMoreShort(p) == fan_it[p] < Len(DictGet(room_clients, room_id[p])) - 1

\* the list iterator of the fan-out loop has a next item
FanoutMore(p) == fan_it[p] < Len(DictGet(room_clients, room_id[p]))

\* the client the list iterator yields next
NextClient(p) == DictGet(room_clients, room_id[p])[fan_it[p] + 1]

PutAcceptsOne(q) == Len(q) < 1

\* queue.Queue() has no maxsize: put never waits for room in the queue
PutAccepts(q) == TRUE

\* one turn of the fan-out loop: client.put(frame) succeeds
FanoutPut(p) ==
  /\ ppc[p] = "fanout"
  /\ FanoutMore(p)
  /\ PutAccepts(client_queue[NextClient(p)])
  /\ fan_it' = [fan_it EXCEPT ![p] = @ + 1]
  /\ client_queue' = [client_queue EXCEPT ![NextClient(p)] = Append(@, Frame(message[p]))]
  /\ puts' = [puts EXCEPT ![NextClient(p)] = Append(@, Frame(message[p]))]
  /\ quiet' = [quiet EXCEPT ![NextClient(p)] = 0]
  /\ quietPings' = [quietPings EXCEPT ![NextClient(p)] = 0]
  /\ UNCHANGED <<waited, joinVars, room_messages, room_clients, clients_lock, created, spc,
                 room_of, replay_it, conn, out, pings, deregRuns, removed, ppc,
                 room_id, body, message, members, failedOn, gone, response>>

\* one turn of the fan-out loop: client.put raises; the bare except removes
\* the client from the list the loop is iterating
FanoutPutFail(p) ==
  /\ ppc[p] = "fanout"
  /\ FanoutMore(p)
  /\ fan_it' = [fan_it EXCEPT ![p] = @ + 1]
  /\ room_clients' = DictSet(room_clients, room_id[p],
                       ListRemove(DictGet(room_clients, room_id[p]), NextClient(p)))
  /\ removed' = removed \cup {NextClient(p)}
  /\ failedOn' = [failedOn EXCEPT ![p] = @ \cup {NextClient(p)}]
  /\ UNCHANGED <<timeVars, joinVars, room_messages, clients_lock, created, sessVars, puts, ppc,
                 room_id, body, message, members, gone, response>>

\* the list iterator is exhausted: leave the with block, return the response
FanoutReturn(p) ==
  /\ ppc[p] = "fanout"
  /\ ~FanoutMore(p)
  /\ clients_lock' = NoOwner
  /\ response' = [response EXCEPT ![p] = PostedResponse(message[p])]
  /\ ppc' = [ppc EXCEPT ![p] = "done"]
  /\ fan_it' = [fan_it EXCEPT ![p] = 0]
  /\ UNCHANGED <<timeVars, joinVars, room_messages, room_clients, created, sessVars, puts, removed,
                 room_id, body, message, members, failedOn, gone>>

\* ================================================================== join
\* `not user_id or not user_name`
JoinMissing(b) == Field(b, "user_id") = None \/ Field(b, "user_name") = None

\* the status the checks of JoinRoom.post lead to, in the order the handler
\* makes them: data.get on None raises (500), the fields (400), the room (404)
JoinOutcome(r, b) ==
  IF b = NoJson THEN 500
  ELSE IF JoinMissing(b) THEN 400
  ELSE IF ~RoomExists(r) THEN 404
  ELSE 200

JoinedResponse(r, b) ==
  [status |-> 200, room_id |-> r, user_id |-> Field(b, "user_id"),
   user_name |-> Field(b, "user_name")]

JoinClientsTouch(d, r) == DictTouch(d, r)

\* what JoinRoom.post does to room_clients: the handler has no statement that
\* reads or writes it
JoinClients(d, r) == d

\* JoinRoom.post, from the request to the response
Join(j) ==
  /\ join_response[j] = NoResponse
  /\ \E r \in Rooms, b \in Bodies :
       /\ join_room' = [join_room EXCEPT ![j] = r]
       /\ join_body' = [join_body EXCEPT ![j] = b]
       /\ room_clients' = JoinClients(room_clients, r)
       /\ join_response' =
            [join_response EXCEPT ![j] =
               IF JoinOutcome(r, b) = 200 THEN JoinedResponse(r, b)
               ELSE ErrorResponse(JoinOutcome(r, b))]
  /\ UNCHANGED <<timeVars, room_messages, clients_lock, created, sessVars,
                 puts, removed, pubVars>>

\* ======================================================== specifications
\* the program as it runs: an unbounded queue.Queue never refuses a put and
\* its get raises nothing but queue.Empty
Next ==
  \/ \E s \in Sessions : OpenStream(s)
  \/ \E s \in Sessions : SubscribeAcquire(s)
  \/ \E s \in Sessions : Subscribe(s)
  \/ \E s \in Sessions : ReplayEmit(s)
  \/ \E s \in Sessions : ReplayDone(s)
  \/ \E s \in Sessions : LiveGet(s)
  \/ \E s \in Sessions : LiveTimeout(s)
  \/ \E s \in Sessions : UnsubscribeAcquire(s)
  \/ \E s \in Sessions : Unsubscribe(s)
  \/ \E s \in Sessions : Disconnect(s)
  \/ \E p \in Publishers : Post(p)
  \/ \E p \in Publishers : FanoutAcquire(p)
  \/ \E p \in Publishers : FanoutPut(p)
  \/ \E p \in Publishers : FanoutReturn(p)

Spec == Init /\ [][Next]_vars

\* the same program with the two failures its except clauses are written
\* for: a put that raises, a wait that raises something else than Empty
FaultNext ==
  \/ Next
  \/ \E p \in Publishers : FanoutPutFail(p)
  \/ \E s \in Sessions : LiveError(s)

FaultSpec == Init /\ [][FaultNext]_vars

\* the steps a session thread takes by itself once its request is accepted
SessionStep(s) ==
  \/ SubscribeAcquire(s) \/ Subscribe(s) \/ ReplayEmit(s) \/ ReplayDone(s)
  \/ LiveGet(s) \/ LiveTimeout(s) \/ UnsubscribeAcquire(s) \/ Unsubscribe(s)

\* the steps a publisher thread takes by itself after the append
PublisherStep(p) == FanoutAcquire(p) \/ FanoutPut(p) \/ FanoutReturn(p)

\* one stream session against the two racing publishers, every thread that
\* can run being scheduled; requests and disconnections arrive when the
\* clients decide
Watched == "s1"

WatchedNext ==
  \/ OpenStream(Watched)
  \/ SubscribeAcquire(Watched)
  \/ Subscribe(Watched)
  \/ ReplayEmit(Watched)
  \/ ReplayDone(Watched)
  \/ LiveGet(Watched)
  \/ LiveTimeout(Watched)
  \/ UnsubscribeAcquire(Watched)
  \/ Unsubscribe(Watched)
  \/ Disconnect(Watched)
  \/ \E p \in Publishers : Post(p)
  \/ \E p \in Publishers : FanoutAcquire(p)
  \/ \E p \in Publishers : FanoutPut(p)
  \/ \E p \in Publishers : FanoutReturn(p)

FairSpec ==
  /\ Init
  /\ [][WatchedNext]_vars
  /\ WF_vars(SessionStep(Watched))
  /\ \A p \in Publishers : WF_vars(PublisherStep(p))

\* the watched session and the publishers with the clock of the wait on the
\* inbound queue
IdleNext ==
  \/ OpenStream(Watched)
  \/ SubscribeAcquire(Watched)
  \/ Subscribe(Watched)
  \/ ReplayEmit(Watched)
  \/ ReplayDone(Watched)
  \/ LiveGet(Watched)
  \/ LiveTimeoutAt(Watched)
  \/ Tick
  \/ UnsubscribeAcquire(Watched)
  \/ Unsubscribe(Watched)
  \/ Disconnect(Watched)
  \/ \E p \in Publishers : Post(p)
  \/ \E p \in Publishers : FanoutAcquire(p)
  \/ \E p \in Publishers : FanoutPut(p)
  \/ \E p \in Publishers : FanoutReturn(p)

IdleSpec == Init /\ [][IdleNext]_vars

\* the three endpoints together: a join request beside the watched session
\* and the publishers
ApiNext ==
  \/ \E j \in Joiners : Join(j)
  \/ OpenStream(Watched)
  \/ SubscribeAcquire(Watched)
  \/ Subscribe(Watched)
  \/ ReplayEmit(Watched)
  \/ ReplayDone(Watched)
  \/ LiveGet(Watched)
  \/ LiveTimeout(Watched)
  \/ UnsubscribeAcquire(Watched)
  \/ Unsubscribe(Watched)
  \/ Disconnect(Watched)
  \/ \E p \in Publishers : Post(p)
  \/ \E p \in Publishers : FanoutAcquire(p)
  \/ \E p \in Publishers : FanoutPut(p)
  \/ \E p \in Publishers : FanoutReturn(p)

ApiSpec == Init /\ [][ApiNext]_vars

\* the subscribers register and replay but never take anything from their
\* queues and stay connected; the threads inside a with block and the
\* publishers are scheduled
StalledNext ==
  \/ \E s \in Sessions : OpenStream(s)
  \/ \E s \in Sessions : SubscribeAcquire(s)
  \/ \E s \in Sessions : Subscribe(s)
  \/ \E s \in Sessions : ReplayEmit(s)
  \/ \E s \in Sessions : ReplayDone(s)
  \/ \E p \in Publishers : Post(p)
  \/ \E p \in Publishers : FanoutAcquire(p)
  \/ \E p \in Publishers : FanoutPut(p)
  \/ \E p \in Publishers : FanoutReturn(p)

StalledSpec ==
  /\ Init
  /\ [][StalledNext]_vars
  /\ \A s \in Sessions : WF_vars(Subscribe(s))
  /\ \A p \in Publishers : WF_vars(PublisherStep(p))

\* ================================================================ claims
Log(r) == DictGet(room_messages, r)

Clients(r) == DictGet(room_clients, r)

Count(l, x) == Cardinality({i \in 1..Len(l) : l[i] = x})

\* position of the message of frame f in the Message Log of the known room
LogPos(f) == CHOOSE k \in 1..Len(Log(KnownRoom)) : Frame(Log(KnownRoom)[k]) = f

Before(l, f, g) ==
  \E i, j \in 1..Len(l) : i < j /\ l[i] = f /\ l[j] = g

\* C1: a session writes every published message to its connection at most
\* once, replayed history and items taken from its queue counted together
C1_NoDuplicateEmit ==
  \A s \in Sessions : \A i, j \in 1..Len(out[s]) :
    i # j => out[s][i] # out[s][j]

\* C3: the messages are placed on a subscriber's queue in the order they
\* have in the room's Message Log
C3_LiveOrderIsLogOrder ==
  \A s \in Sessions : \A i, j \in 1..Len(puts[s]) :
    i < j => LogPos(puts[s][i]) < LogPos(puts[s][j])

\* C4: any two messages that were placed on the queues of two subscribers
\* were placed in the same relative order on both
C4_SameOrderAcrossSubscribers ==
  \A s, t \in Sessions : \A i, j \in 1..Len(puts[s]) :
    (i < j /\ Count(puts[t], puts[s][i]) > 0 /\ Count(puts[t], puts[s][j]) > 0)
      => Before(puts[t], puts[s][i], puts[s][j])

C4_Witness ==
  /\ \A s \in Sessions : Len(puts[s]) = 2
  /\ \A p \in Publishers : ppc[p] = "done" /\ Len(members[p]) = 2

\* C5: after a fan-out in which a put failed, every other subscriber that
\* was in the Subscriber Set when the fan-out began and whose own put did not
\* fail has the message on its queue
C5_FailureIsolation ==
  \A p \in Publishers :
    (ppc[p] = "done" /\ failedOn[p] # {}) =>
      \A i \in 1..Len(members[p]) :
        members[p][i] \notin failedOn[p] =>
          Count(puts[members[p][i]], Frame(message[p])) > 0

\* C6: a subscriber whose put failed is out of the Subscriber Set from the
\* failure on, and the publish returns success with the message id, the
\* message being in the Message Log
C6_FailedSubscriberRemoved ==
  \A p \in Publishers :
    /\ \A c \in failedOn[p] : ~InList(Clients(room_id[p]), c)
    /\ (ppc[p] = "done" /\ failedOn[p] # {}) =>
         /\ response[p] = [status |-> 200, message_id |-> message[p].id,
                           room_id |-> room_id[p]]
         /\ InList(Log(room_id[p]), message[p])

C6_Witness ==
  \E p \in Publishers : ppc[p] = "done" /\ failedOn[p] # {}

\* C7: when a publish without delivery failure has returned success, the
\* message is in the Message Log and is exactly once among the items placed
\* on the queue of every member of the Subscriber Set at the fan-out
C7_PublishReachesMembers ==
  \A p \in Publishers :
    (ppc[p] = "done" /\ response[p].status = 200 /\ failedOn[p] = {}) =>
      /\ InList(Log(room_id[p]), message[p])
      /\ \A i \in 1..Len(members[p]) :
           Count(puts[members[p][i]], Frame(message[p])) = 1

\* the publish has returned while its message still waits on both queues
C7_Witness ==
  \E p \in Publishers :
    /\ ppc[p] = "done" /\ response[p].status = 200 /\ failedOn[p] = {}
    /\ Len(members[p]) = 2
    /\ \A s \in Sessions : Count(client_queue[s], Frame(message[p])) = 1

\* C8: a CLOSED session is not in the Subscriber Set and its deregistration
\* ran exactly once
C8_ClosedIsDeregistered ==
  \A s \in Sessions :
    spc[s] = "closed" =>
      /\ ~InList(Clients(room_of[s]), s)
      /\ deregRuns[s] = 1

\* one session closed during replay or a keep-alive, the other out of LIVE
C8_Witness ==
  \E s, t \in Sessions :
    /\ s # t /\ spc[s] = "closed" /\ spc[t] = "closed"
    /\ out[s] = <<>> /\ out[t] # <<>>

\* C10: once list.remove has taken a handle out of the Subscriber Set, no
\* publish places anything on its queue, and every publish that ends its
\* fan-out returns success
C10_NoDeliveryAfterRemoval ==
  [][/\ \A s \in removed : puts'[s] = puts[s]
     /\ \A p \in Publishers :
          (ppc[p] = "fanout" /\ ppc'[p] = "done") => response'[p].status = 200]_vars

\* a publish whose fan-out began after the removal of a handle has returned
C10_Witness ==
  \E p \in Publishers : \E s \in gone[p] :
    /\ ppc[p] = "done" /\ response[p].status = 200
    /\ Count(puts[s], Frame(message[p])) = 0
    /\ puts[s] # <<>>

MessageIds == 1..Cardinality(Publishers)

InLog(n) == \E k \in 1..Len(Log(KnownRoom)) : Log(KnownRoom)[k].id = n

Emitted(s, n) == \E i \in 1..Len(out[s]) : FrameId(out[s][i]) = n

Streaming(s) == spc[s] \in {"connecting", "subscribing", "replaying", "live"}

\* C2: every message of the Message Log is eventually written to the
\* connection of every stream session that stays connected
C2_NoGap ==
  \A s \in {Watched} : \A n \in MessageIds :
    (InLog(n) /\ Streaming(s)) ~> (Emitted(s, n) \/ conn[s] = "closed")

\* both messages written to a connection that is still open
C2_Witness ==
  \E s \in Sessions :
    /\ spc[s] = "live" /\ conn[s] = "open"
    /\ \A n \in MessageIds : Emitted(s, n)

\* C9: when the connection of a registered session has closed, the session
\* eventually is CLOSED with its handle out of the Subscriber Set
C9_EventualCleanup ==
  \A s \in {Watched} :
    (conn[s] = "closed" /\ InList(Clients(KnownRoom), s))
      ~> (spc[s] = "closed" /\ ~InList(Clients(KnownRoom), s))

\* a session closed after its connection went away while it waited in LIVE
\* with nothing published at all
C9_Witness ==
  \E s \in Sessions :
    /\ spc[s] = "closed" /\ s \in removed
    /\ created = 0

\* ------------------------------------------------------------------ C11
\* the three fields of a request body are all there
Complete(b) ==
  /\ b # NoJson
  /\ b.user_id # None /\ b.user_name # None /\ b.message # None

\* the step of publisher p that takes a request for an unknown room
UnknownRoomPost(p) ==
  ppc[p] = "idle" /\ ppc'[p] # "idle" /\ room_id'[p] # KnownRoom

SharedUnchanged == UNCHANGED <<room_messages, room_clients, client_queue, puts>>

\* C11 as stated: a publish to an unknown room returns RoomNotFound and
\* changes no Message Log, Subscriber Set or queue, for every request body
C11_UnknownRoomAlwaysNotFound ==
  [][\A p \in Publishers :
       UnknownRoomPost(p) => (response'[p].status = 404 /\ SharedUnchanged)]_vars

\* C11 amended: a publish to an unknown room changes no Message Log,
\* Subscriber Set or queue for every request body, and returns RoomNotFound
\* when the body carries its three fields (InvalidInput when a field is
\* missing, the internal-failure response when there is no JSON body)
C11_UnknownRoomChangesNothing ==
  [][\A p \in Publishers :
       UnknownRoomPost(p) =>
         /\ SharedUnchanged
         /\ ppc'[p] = "done"
         /\ response'[p].status =
              IF Complete(body'[p]) THEN 404
              ELSE IF body'[p] = NoJson THEN 500 ELSE 400]_vars

\* RoomNotFound returned while the known room has a message and a subscriber
C11_Witness ==
  \E p \in Publishers :
    /\ ppc[p] = "done" /\ room_id[p] # KnownRoom /\ response[p].status = 404
    /\ Log(KnownRoom) # <<>> /\ Clients(KnownRoom) # <<>>

\* ------------------------------------------------------------------ C12
\* C12: with subscribers that never dequeue, every publish that has appended
\* its message ends with success and with the message on the queue of every
\* subscriber registered at its fan-out, whatever is already pending there
C12_StalledNeverBlocks ==
  \A p \in Publishers :
    (ppc[p] = "appended") ~>
      /\ ppc[p] = "done" /\ response[p].status = 200
      /\ \A i \in 1..Len(members[p]) :
           Count(client_queue[members[p][i]], Frame(message[p])) = 1

\* both publishes returned, two items pending on one stalled subscriber and
\* delivered to the other one too
C12_Witness ==
  /\ \A p \in Publishers : ppc[p] = "done" /\ response[p].status = 200
  /\ \E s, t \in Sessions :
       /\ s # t /\ spc[s] = "live" /\ Len(client_queue[s]) = 2
       /\ Len(client_queue[t]) = 2

\* ------------------------------------------------------------------ C13
\* the idle interval of the claim: three waits on the inbound queue
Window == 3 * Timeout

\* C13: a connected session that has been in LIVE for 90 time units with no
\* publish to its room has written at least 2 keep-alives in them; it writes
\* a message event only at the instant of a publish; it writes a keep-alive
\* only when its wait has lasted 30 units with nothing queued, and when a wait
\* has lasted 30 units with nothing queued the session's next step writes one
C13_IdleKeepAlive ==
  /\ [](\A s \in Sessions :
          spc[s] = "live" /\ conn[s] = "open" /\ quiet[s] >= Window
            => quietPings[s] >= 2)
  /\ [][\A s \in Sessions :
          /\ out'[s] # out[s] /\ spc[s] = "live" => quiet[s] = 0
          /\ pings'[s] # pings[s] => waited[s] = Timeout /\ client_queue[s] = <<>>
          /\ ( /\ spc[s] = "live" /\ conn[s] = "open"
               /\ waited[s] = Timeout /\ client_queue[s] = <<>>
               /\ waited'[s] # waited[s] )
               => pings'[s] = pings[s] + 1]_vars

\* a session that delivered a message, then stayed idle and connected for the
\* whole window
C13_Witness ==
  \E s \in Sessions :
    /\ spc[s] = "live" /\ conn[s] = "open" /\ out[s] # <<>>
    /\ quiet[s] >= Window /\ quietPings[s] >= 2

\* ------------------------------------------------------------------ C14
\* C14: a stream request on an unknown room id is answered RoomNotFound and
\* goes no further: the session never leaves that answer, its handle is in no
\* Subscriber Set, nothing was put on or taken from a queue for it, nothing
\* was written to its connection, and neither dict has a key for the id
C14_UnknownRoomStream ==
  \A s \in Sessions :
    room_of[s] # KnownRoom /\ spc[s] # "idle" =>
      /\ spc[s] = "notfound"
      /\ \A r \in DOMAIN room_clients : ~InList(room_clients[r], s)
      /\ s \notin removed
      /\ client_queue[s] = <<>> /\ puts[s] = <<>>
      /\ out[s] = <<>> /\ pings[s] = 0 /\ deregRuns[s] = 0
      /\ room_of[s] \notin DOMAIN room_clients
      /\ room_of[s] \notin DOMAIN room_messages

\* one stream request refused while another session is served
C14_Witness ==
  \E s, t \in Sessions :
    /\ spc[s] = "notfound" /\ room_of[s] # KnownRoom
    /\ spc[t] = "live" /\ out[t] # <<>>

\* ------------------------------------------------------------------ C15
\* the handles of room r other than c are the same, in the same order,
\* before and after the step
OthersStay(r, c) ==
  SelectSeq(DictGet(room_clients', r), LAMBDA x : x # c)
    = SelectSeq(DictGet(room_clients, r), LAMBDA x : x # c)

\* C15: the cleanup of a session ends without an error with the handle
\* absent and every other handle in place, and it changes nothing when the
\* hub has removed the handle before; the hub's removal after a failed put
\* takes out that handle and no other
C15_RemovalIdempotent ==
  [][/\ \A s \in Sessions :
          spc[s] = "unsubscribing" /\ spc'[s] # "unsubscribing" =>
            /\ spc'[s] = "closed"
            /\ ~InList(DictGet(room_clients', room_of[s]), s)
            /\ OthersStay(room_of[s], s)
            /\ ~InList(DictGet(room_clients, room_of[s]), s) =>
                 DictGet(room_clients', room_of[s]) = DictGet(room_clients, room_of[s])
     /\ \A p \in Publishers :
          failedOn'[p] # failedOn[p] =>
            /\ ~InList(DictGet(room_clients', room_id[p]), NextClient(p))
            /\ OthersStay(room_id[p], NextClient(p))]_vars

\* the hub removed a handle after a failed put, its session then ran its
\* cleanup, and the other session is still registered
C15_Witness ==
  \E s, t \in Sessions, p \in Publishers :
    /\ s # t /\ s \in failedOn[p]
    /\ spc[s] = "closed" /\ deregRuns[s] = 1
    /\ InList(Clients(KnownRoom), t)

\* ------------------------------------------------------------------ C16
\* the step that answers a join request
JoinStep(j) == join_response[j] = NoResponse /\ join_response'[j] # NoResponse

\* C16: a join, whatever it answers, leaves every Subscriber Set, every
\* Message Log and every inbound queue as they were
C16_JoinTouchesNothing ==
  [][\A j \in Joiners :
       JoinStep(j) =>
         /\ join_response'[j].status \in {200, 400, 404, 500}
         /\ UNCHANGED <<room_messages, room_clients, client_queue, puts, removed>>]_vars

\* a join answered with success while a session is registered, the log has
\* a message and a queue holds an item
C16_Witness ==
  \E j \in Joiners, s \in Sessions :
    /\ join_response[j].status = 200
    /\ InList(Clients(KnownRoom), s) /\ client_queue[s] # <<>>
    /\ Log(KnownRoom) # <<>>

\* ------------------------------------------------------------------ C17
\* the phase of the session state machine a position of the handler is in;
\* the cleanup of the finally block belongs to CLOSED
Phase(s) ==
  CASE spc[s] \in {"connecting", "subscribing"} -> "CONNECTING"
    [] spc[s] = "replaying" -> "REPLAYING"
    [] spc[s] = "live" -> "LIVE"
    [] spc[s] \in {"finally", "unsubscribing", "closed"} -> "CLOSED"
    [] OTHER -> "NONE"

PhaseOrder == <<"CONNECTING", "REPLAYING", "LIVE", "CLOSED">>

Rank(ph) == IF ph = "NONE" THEN 0 ELSE CHOOSE i \in 1..Len(PhaseOrder) : PhaseOrder[i] = ph

\* a replaying session is registered, has written the first replay_it
\* entries of the log in log order and nothing else, and has taken nothing
\* from its queue
ReplayInOrder ==
  \A s \in Sessions :
    spc[s] = "replaying" =>
      /\ InList(Clients(room_of[s]), s)
      /\ Len(out[s]) = replay_it[s]
      /\ replay_it[s] <= Len(Log(room_of[s]))
      /\ \A i \in 1..Len(out[s]) : out[s][i] = Frame(Log(room_of[s])[i])
      /\ pings[s] = 0 /\ client_queue[s] = puts[s]

\* nothing is written or taken from a queue before the handle is
\* registered
NothingBeforeRegistration ==
  \A s \in Sessions :
    Phase(s) \in {"NONE", "CONNECTING"} =>
      out[s] = <<>> /\ pings[s] = 0 /\ client_queue[s] = puts[s]

\* a keep-alive is written in LIVE only; a message event is written in
\* REPLAYING, with the queue left alone, or in LIVE
QueueReadInLive(s) ==
  /\ pings'[s] # pings[s] => spc[s] = "live"
  /\ out'[s] # out[s] =>
       \/ spc[s] = "live"
       \/ spc[s] = "replaying" /\ client_queue'[s] = client_queue[s]

\* C17 as stated: registration before history, history in log order, nothing
\* from the queue before the replay is over, and every change of phase is a
\* move to the next phase of CONNECTING -> REPLAYING -> LIVE -> CLOSED
C17_PhaseChain ==
  /\ [](ReplayInOrder /\ NothingBeforeRegistration)
  /\ [][\A s \in Sessions :
          /\ QueueReadInLive(s)
          /\ Phase(s) # "NONE" /\ Phase(s)' # Phase(s)
               => Rank(Phase(s)') = Rank(Phase(s)) + 1]_vars

\* C17, amended: the same, the phase only moving forward in that order (a
\* session whose connection closes during the replay goes from REPLAYING to
\* CLOSED) and never leaving CLOSED
C17_PhaseForward ==
  /\ [](ReplayInOrder /\ NothingBeforeRegistration)
  /\ [][\A s \in Sessions :
          /\ QueueReadInLive(s)
          /\ Phase(s) # "NONE" /\ Phase(s)' # Phase(s)
               => Rank(Phase(s)') > Rank(Phase(s))
          /\ Phase(s) = "CONNECTING" => Phase(s)' \in {"CONNECTING", "REPLAYING"}
          /\ Phase(s) = "CLOSED" => Phase(s)' = "CLOSED"]_vars

\* a session in the middle of a replay of two messages with an item waiting
\* on its queue
C17_Witness ==
  \E s \in Sessions :
    /\ spc[s] = "replaying" /\ replay_it[s] = 2 /\ conn[s] = "open"
    /\ client_queue[s] # <<>>

\* ------------------------------------------------------------------ C18
\* f is the frame of an entry of the log of room r
FrameOfLog(r, f) == \E k \in 1..Len(Log(r)) : Frame(Log(r)[k]) = f

\* C18: every frame on a queue or written to a connection is the frame of
\* an entry of the log of the session's room, and a step leaves each log as
\* it was or adds one entry at its end
C18_AppendPrecedesFanout ==
  /\ [](\A s \in Sessions :
          /\ \A i \in 1..Len(client_queue[s]) : FrameOfLog(room_of[s], client_queue[s][i])
          /\ \A i \in 1..Len(puts[s]) : FrameOfLog(room_of[s], puts[s][i])
          /\ \A i \in 1..Len(out[s]) : FrameOfLog(room_of[s], out[s][i]))
  /\ [][\A r \in Rooms :
          \/ DictGet(room_messages', r) = Log(r)
          \/ /\ Len(DictGet(room_messages', r)) = Len(Log(r)) + 1
             /\ SubSeq(DictGet(room_messages', r), 1, Len(Log(r))) = Log(r)]_vars

\* two messages in the log, one of them written to a connection and one
\* waiting on a queue
C18_Witness ==
  \E s \in Sessions :
    /\ Len(Log(KnownRoom)) = 2
    /\ client_queue[s] # <<>> /\ out[s] # <<>>

\* ------------------------------------------------------------------ C19
\* the threads whose position is inside a `with clients_lock:` block
InWith ==
  {s \in Sessions : spc[s] \in {"subscribing", "unsubscribing"}}
    \cup {p \in Publishers : ppc[p] = "fanout"}

\* the threads whose next step is to enter a `with clients_lock:` block
AtWith ==
  {s \in Sessions : spc[s] \in {"connecting", "finally"}}
    \cup {p \in Publishers : ppc[p] = "appended"}

\* a step of the thread that holds the lock
HolderStep ==
  \/ \E s \in Sessions : clients_lock = s /\ (Subscribe(s) \/ Unsubscribe(s))
  \/ \E p \in Publishers : clients_lock = p /\ (FanoutPut(p) \/ FanoutReturn(p))

\* C19: the lock is held by exactly the thread inside a with block
\* (registration, fan-out, deregistration), by one thread at most, never by a
\* session that replays, waits on its queue or has finished; the holder can
\* always take its next step and leaving the block frees the lock, so the
\* threads at the entry of a block are never all stuck
C19_LockDiscipline ==
  /\ [](/\ Cardinality(InWith) <= 1
        /\ \A t \in Sessions \cup Publishers : clients_lock = t <=> t \in InWith
        /\ clients_lock # NoOwner => ENABLED HolderStep
        /\ \A s \in Sessions :
             spc[s] \in {"replaying", "live", "closed"} => clients_lock # s
        /\ \A p \in Publishers : ppc[p] = "done" => clients_lock # p)
  /\ [][\A t \in Sessions \cup Publishers :
          t \in InWith /\ t \notin InWith' => clients_lock' = NoOwner]_vars

\* one thread inside a with block while two others are at the entry of one
C19_Witness ==
  /\ clients_lock # NoOwner
  /\ Cardinality(AtWith) >= 2

\* ------------------------------------------------------------------ C20
\* the step that takes the request of publisher p
PostStep(p) == ppc[p] = "idle" /\ ppc'[p] # "idle"

\* C20: a publish or a join whose JSON body lacks a required field answers
\* InvalidInput whatever the room id is, RoomNotFound is answered only, and
\* always, to a request with every required field and an unknown room id,
\* and neither answer comes with a change of the logs, the Subscriber Sets
\* or the queues
C20_ValidationPrecedence ==
  [][/\ \A p \in Publishers :
          PostStep(p) /\ body'[p] # NoJson =>
            /\ ( \/ body'[p].user_id = None
                 \/ body'[p].user_name = None
                 \/ body'[p].message = None ) => response'[p].status = 400
            /\ response'[p].status = 404 <=>
                 /\ body'[p].user_id # None /\ body'[p].user_name # None
                 /\ body'[p].message # None /\ room_id'[p] # KnownRoom
            /\ response'[p].status \in {400, 404} =>
                 ppc'[p] = "done" /\ SharedUnchanged /\ UNCHANGED created
     /\ \A j \in Joiners :
          JoinStep(j) /\ join_body'[j] # NoJson =>
            /\ (join_body'[j].user_id = None \/ join_body'[j].user_name = None)
                 => join_response'[j].status = 400
            /\ join_response'[j].status = 404 <=>
                 /\ join_body'[j].user_id # None /\ join_body'[j].user_name # None
                 /\ join_room'[j] # KnownRoom
            /\ SharedUnchanged /\ UNCHANGED created]_vars

\* a publish and a join, both to an unknown room and both with a missing
\* field, answered InvalidInput
C20_Witness ==
  \E p \in Publishers, j \in Joiners :
    /\ room_id[p] # KnownRoom /\ body[p] # NoJson /\ body[p].message = None
    /\ response[p].status = 400
    /\ join_room[j] # KnownRoom /\ join_body[j] # NoJson /\ join_body[j].user_id = None
    /\ join_response[j].status = 400

====
